---- MODULE Spec2Model ----
(***************************************************************************)
(* Model of the crawl engine of linuxwebsitecrawling: class WebCrawler     *)
(* (src/unnamed/part_001, lines 318-821) driven by its callers             *)
(* (src/src/index.js, src/unnamed/part_002).                               *)
(*                                                                         *)
(* One WebCrawler instance is modelled.  Every crawl operation in flight   *)
(* is a stack of call frames (crawlWithAxios recurses into the links of a  *)
(* page); a frame's pc names the await it is suspended on.  One action     *)
(* runs a frame from the completion of one I/O await (network, timer,      *)
(* child process, browser) to the next one, or to its return.              *)
(***************************************************************************)
EXTENDS Integers, Sequences, FiniteSets, TLC

(***************************************************************************)
(* Bounds of the model.                                                    *)
(***************************************************************************)
\* number of crawl operations a caller starts on the crawler
MaxCalls == 2
\* number of crawl operations that may be in flight at the same time
MaxWorkers == 2
\* number of crawl operations started in a session that exercises the retry loop
MaxRetryCalls == 1
\* calls of crawlWithAxios per session in the sessions checked for termination
MaxTermCalls == 1
\* the history counter of the fetches of one URL stops counting here
MaxTries == 10

Workers == 1..MaxWorkers

(***************************************************************************)
(* Program constants: the defaults of the constructor.                     *)
(***************************************************************************)
DefaultMaxPages == 50
DefaultMaxDepth == 3
DefaultRetries == 3
DefaultDelay == 1000
DefaultConcurrent == 5

(***************************************************************************)
(* The web the crawler runs against.                                       *)
(***************************************************************************)
U1 == "http://h1/"
U1b == "http://h1/b"
U1c == "http://h1/c"
U1d == "http://h1/d"
Urls == {U1, U1b, U1c, U1d}
\* the front page as a caller may name it, without the path
U1raw == "http://h1"
\* an image
I1 == "http://h1/i.png"

R1 == "http://h1/robots.txt"
RobotsUrls == {R1}

\* `${parsedUrl.protocol}//${parsedUrl.host}/robots.txt`
RobotsUrl(u) == R1

\* the Disallow rules served in each robots.txt
RobotsRules(r) == {U1b}

\* the names of the meta tags of each document
MetaTags(u) ==
    CASE u = U1 -> {"description", "viewport", "charset"}
      [] u = U1b -> {"author"}
      [] OTHER -> {}

\* the errors a request can end with
Errors == {"ETIMEDOUT", "HTTP500"}

\* the status of the response a request ends with: "ok" is a response with
\* status 200, "HTTPnnn" one with status nnn, and 0 stands for the requests
\* that end without a response
Status(how) ==
    CASE how = "ok" -> 200
      [] how = "HTTP204" -> 204
      [] how = "HTTP404" -> 404
      [] how = "HTTP500" -> 500
      [] OTHER -> 0

\* the body of the response: a 204 response has none
Data(how) == IF Status(how) = 204 THEN "empty" ELSE "page"

(***************************************************************************)
(* Optional arguments: <<>> is an absent (undefined) argument, <<v>> is    *)
(* the value v.                                                            *)
(***************************************************************************)
Absent == <<>>
Given(v) == <<v>>
\* x || d followed by the spread ...options: a key that is present keeps
\* its own value, also when that value is 0
OrDefault(x, d) == IF x = Absent THEN d ELSE x[1]
\* options.depth > 0, options.retries > 0: undefined > 0 is false
Positive(x) == x # Absent /\ x[1] > 0

Ops == {"axios", "puppeteer", "curl"}

(***************************************************************************)
(* Documents and URLs.  new URL(href, base).href resolves a reference      *)
(* against a base and normalizes the result, or throws.  Every base of     *)
(* the model lies in the root directory of the one host, so that a         *)
(* reference resolves alike against each of them, the empty reference      *)
(* excepted, which resolves to the base.                                   *)
(***************************************************************************)
RECURSIVE Resolve(_, _)
Resolve(href, base) ==
    CASE href = "" -> Resolve(base, base)
      [] href \in {"/", U1, U1raw} -> Given(U1)
      [] href \in {"/b", "b", U1b} -> Given(U1b)
      [] href \in {"/c", U1c} -> Given(U1c)
      [] href \in {"d", U1d} -> Given(U1d)
      [] href \in {"/i.png", I1} -> Given(I1)
      [] OTHER -> Absent         \* "http://": TypeError, Invalid URL

\* new URL(u).href
Normalize(u) == Resolve(u, u)[1]

\* the href attributes of the a[href] elements of the document served for
\* u, in document order
Hrefs(u) ==
    CASE Normalize(u) = U1 -> <<"/b", "", "b", "http://", "/c">>
      [] Normalize(u) = U1b -> <<"/", "d">>
      [] OTHER -> <<>>

\* the src attributes of the img[src] elements of the document served for u
Srcs(u) ==
    CASE Normalize(u) = U1 -> <<"/i.png", "http://", "", "/i.png">>
      [] OTHER -> <<>>

\* the each() loops of extractLinks and extractImages: an empty reference
\* is passed over by if (href), one that new URL rejects by the catch block
Absolutized(refs, base) ==
    LET kept == SelectSeq(refs, LAMBDA h : h # "" /\ Resolve(h, base) # Absent)
    IN [i \in DOMAIN kept |-> Resolve(kept[i], base)[1]]

\* this.extractLinks($, url), $ loaded from the body data: the url of each
\* link, in document order
extractLinks(data, u) ==
    IF data = "empty" THEN <<>> ELSE Absolutized(Hrefs(u), u)

\* this.extractImages($, url)
extractImages(data, u) ==
    IF data = "empty" THEN <<>> ELSE Absolutized(Srcs(u), u)

\* a.href and img.src in the browser: the resolved reference, and the
\* attribute as it stands when it cannot be resolved
Properties(refs, base) ==
    [i \in DOMAIN refs |-> IF Resolve(refs[i], base) = Absent THEN refs[i]
                           ELSE Resolve(refs[i], base)[1]]

\* the links of each document
Anchors(u) == extractLinks("page", u)

(***************************************************************************)
(* Cookie credentials.  A string is the sequence of its pieces; the value   *)
(* of credentials.cookies is an array of {name, value} objects or a string. *)
(***************************************************************************)
MaxCookies == 2

CookiePairs == {[name |-> "sessionid", value |-> "abc123"],
                [name |-> "csrftoken", value |-> "xyz789"]}

PairLists(n) == UNION {[1..k -> CookiePairs] : k \in 0..n}

ArrayOf(pairs) == [array |-> TRUE, items |-> pairs, text |-> <<>>]
StringOf(text) == [array |-> FALSE, items |-> <<>>, text |-> text]
\* no cookies in the credentials: undefined
NoCookies == StringOf(<<>>)

\* "name=value; name=value"
RECURSIVE Join(_)
Join(pairs) ==
    IF pairs = <<>> THEN <<>>
    ELSE <<Head(pairs).name, "=", Head(pairs).value>>
         \o (IF Tail(pairs) = <<>> THEN <<>> ELSE <<"; ">>)
         \o Join(Tail(pairs))

\* '[{"name": "n", "value": "v"}, ...]'
RECURSIVE JsonObjects(_)
JsonObjects(pairs) ==
    IF pairs = <<>> THEN <<>>
    ELSE <<"{\"name\": \"", Head(pairs).name, "\", \"value\": \"",
           Head(pairs).value, "\"}">>
         \o (IF Tail(pairs) = <<>> THEN <<>> ELSE <<", ">>)
         \o JsonObjects(Tail(pairs))

JsonText(pairs) == <<"[">> \o JsonObjects(pairs) \o <<"]">>

\* the ways cookies are given: an array handed to new WebCrawler, and with
\* --auth-cookies a semicolon-separated string or the text of a JSON array
CookieForms == {"array", "delimited", "json"}

CookieInputs ==
    {[form |-> "array", pairs |-> <<>>]}
    \cup [form : CookieForms, pairs : PairLists(MaxCookies) \ {<<>>}]

\* credentials.cookies for an input: the array itself, and for the command
\* line the argument string as commander delivers it, which the crawl
\* command stores unparsed
authCookies(input) ==
    CASE input.form = "array" -> ArrayOf(input.pairs)
      [] input.form = "delimited" -> StringOf(Join(input.pairs))
      [] input.form = "json" -> StringOf(JsonText(input.pairs))

\* if (!cookies) of authenticateCookie: undefined and the empty string
Falsy(cookies) == ~cookies.array /\ cookies.text = <<>>

\* the cookieString of authenticateCookie
cookieString(cookies) ==
    IF cookies.array THEN Join(cookies.items) ELSE cookies.text

constructor(o) ==
    [ maxDepth      |-> OrDefault(o.maxDepth, DefaultMaxDepth),
      maxPages      |-> OrDefault(o.maxPages, DefaultMaxPages),
      retries       |-> OrDefault(o.retries, DefaultRetries),
      delay         |-> OrDefault(o.delay, DefaultDelay),
      concurrent    |-> OrDefault(o.concurrent, DefaultConcurrent),
      respectRobots |-> o.respectRobots,
      auth          |-> o.auth,
      cookies       |-> o.cookies ]  \* auth.credentials.cookies

VARIABLES
    options,        \* this.options
    visitedUrls,    \* this.visitedUrls
    crawledData,    \* this.crawledData
    robotsCache,    \* this.robotsCache: robots.txt URL -> parsed rules
    stacks,         \* per operation in flight: its stack of call frames
    calls,          \* crawl operations started so far
    fetched,        \* history: <<url, operation, linking page>> of the
                    \* document fetches issued ("" for the url of a caller)
    refetched,      \* history: URLs fetched while already in visitedUrls
    failed,         \* history: URLs of the calls that returned after their
                    \* fetch had failed
    again,          \* history: the fetches a call issued for a URL that had
                    \* failed, or that was fetched from the same page before
    robotsSettled,  \* history: robots.txt URLs whose first check completed
    robotsAgain,    \* history: robots.txt URLs requested after that
    loginPosts,     \* history: login POST exchanges issued
    loginOk,        \* history: a login exchange succeeded
    lastThrow,      \* history: the last error makeRequest surfaced
    lastReturn,     \* history: the last crawl operation that returned
    process,        \* the node process of the session: running or exited
    persisted,      \* the crawledData that saveData wrote, if it ran
    config,         \* CrawlerScheduler: this.config.jobs, undefined until
                    \* loadConfig has set it
    pending,        \* the scheduler command whose action has not yet run
                    \* its synchronous part ("none" when the class is used
                    \* by a program of its own)
    jobs,           \* this.jobs: job name -> cron task (0: no entry)
    tasks,          \* the cron tasks created by cron.schedule
    handler,        \* the SIGINT handler of start() is registered
    runs,           \* the executions of the job callback
    posts,          \* history: the webhook notifications posted
    reads,          \* history: the accesses to this.config.jobs that the
                    \* actions of the commands made
    lastOp          \* history: the last scheduler method that ran

vars == <<options, visitedUrls, crawledData, robotsCache, stacks, calls,
          fetched, refetched, failed, again, robotsSettled, robotsAgain,
          loginPosts, loginOk, lastThrow, lastReturn, process, persisted,
          config, pending, jobs, tasks, handler, runs, posts, reads, lastOp>>

\* the state of the crawler and of its session
crawlerVars == <<options, visitedUrls, crawledData, robotsCache, stacks, calls,
                 fetched, refetched, failed, again, robotsSettled,
                 robotsAgain, loginPosts, loginOk, lastThrow, lastReturn,
                 persisted>>

\* the state of the scheduler
schedulerVars == <<config, pending, jobs, tasks, handler, runs, posts, reads,
                   lastOp>>

JobNames == {"news-crawler", "daily-screenshot"}
NoOp == [op |-> "", name |-> ""]

\* the state after new CrawlerScheduler(configPath): loadConfig is started
\* and not awaited
constructorScheduler ==
    /\ config = Absent
    /\ jobs = [n \in JobNames |-> 0]
    /\ tasks = <<>>
    /\ handler = FALSE
    /\ runs = <<>>
    /\ posts = <<>>
    /\ reads = {}
    /\ lastOp = NoOp

NoThrow == [url |-> "", errs |-> <<>>, waits |-> <<>>, error |-> ""]
NoReturn == [op |-> "", url |-> "", reason |-> "", robots |-> "", login |-> "",
             tries |-> 0, attempt |-> 0, level |-> 0, limit |-> 0,
             browser |-> "none"]

\* a robotsCache entry: has is robotsCache.has(key), rules the parsed rules
NotCached == [has |-> FALSE, rules |-> {}]
Cached(rules) == [has |-> TRUE, rules |-> rules]

\* the state after new WebCrawler(o), o drawn from the given option values
\* (MP, R, D, C: maxPages, retries, delay, concurrent; RR: respectRobots;
\* A: auth; K: the cookies of the auth credentials; MD: maxDepth), and
\* after new CrawlerScheduler() in a process started for one of P
InitOf(MP, R, D, C, RR, A, K, MD, P) ==
    /\ \E mp \in MP, r \in R, d \in D, c \in C, rr \in RR, a \in A, k \in K,
          md \in MD :
          options = constructor([maxDepth |-> md,
                                 maxPages |-> mp, retries |-> r, delay |-> d,
                                 concurrent |-> c, respectRobots |-> rr,
                                 auth |-> a, cookies |-> k])
    /\ visitedUrls = {}
    /\ crawledData = <<>>
    /\ robotsCache = [r \in RobotsUrls |-> NotCached]
    /\ stacks = [w \in Workers |-> <<>>]
    /\ calls = 0
    /\ fetched = {}
    /\ refetched = {}
    /\ failed = {}
    /\ again = {}
    /\ robotsSettled = {}
    /\ robotsAgain = {}
    /\ loginPosts = 0
    /\ loginOk = FALSE
    /\ lastThrow = NoThrow
    /\ lastReturn = NoReturn
    /\ process = "running"
    /\ persisted = Absent
    /\ pending \in P
    /\ constructorScheduler

InitWith(MP, R, D, C, RR, A) == InitOf(MP, R, D, C, RR, A, {NoCookies}, {Absent}, {"none"})

(***************************************************************************)
(* Call frames.  The top of a stack is its head.                           *)
(***************************************************************************)
NewFrame(op, u, d, r) ==
    [ op      |-> op,       \* the crawl operation
      url     |-> u,        \* its url argument
      depth   |-> d,        \* options.depth
      retries |-> r,        \* options.retries
      pc      |-> "entry",
      robots  |-> "none",   \* how checkRobotsTxt answered: cached, rules,
                            \* lenient, fail; none when it was not called
      login   |-> "none",   \* how the login exchange ended
      attempt |-> 0,        \* the loop variable of makeRequest
      errs    |-> <<>>,     \* errors of the failed attempts of makeRequest
      waits   |-> <<>>,     \* backoff delays of makeRequest
      links   |-> <<>>,     \* links the for loop has still to crawl
      browser |-> "none",   \* the puppeteer browser: none, open, closed
      page    |-> FALSE,    \* a pageData was produced
      headers |-> "none",   \* authHeaders of makeRequest: null, Authorization,
                            \* Cookie; none before authenticate resolved
      cookie  |-> <<>>,     \* the value of the Cookie header of authHeaders
      before  |-> [visited |-> visitedUrls, data |-> crawledData],
                            \* history: this.visitedUrls and this.crawledData
                            \* when the url was first called for
      level   |-> 0,        \* history: links followed from the caller's url
      limit   |-> OrDefault(d, 0),  \* history: options.depth of the caller
      via     |-> "",       \* history: the page whose link is crawled
      seed    |-> u,        \* history: the url of the caller
      tries   |-> 0,        \* history: document fetches issued for the url
                            \* by this call and the calls it retried from
      reason  |-> "" ]      \* history: why the call returned

Count(n) == IF n < MaxTries THEN n + 1 ELSE n

Ret(f, why) == [f EXCEPT !.pc = "return", !.reason = why]

\* a catch block that goes on to the links of the page that failed
CatchAxiosFollow(f) ==
    IF Positive(f.depth) /\ Anchors(f.url) # <<>>
    THEN [f EXCEPT !.pc = "childDelay", !.links = Anchors(f.url)]
    ELSE Ret(f, "failed")

\* the catch block of crawlWithAxios
CatchAxios(f) ==
    IF Positive(f.retries)
    THEN [f EXCEPT !.pc = "retryDelay"]
    ELSE Ret(f, "failed")

\* makeRequest from its for loop on: the first axios(config) is issued, or
\* the loop body never runs, makeRequest returns undefined and response.data
\* throws in crawlWithAxios
EnterLoop(f) ==
    IF 1 <= options.retries
    THEN [f EXCEPT !.pc = "getWait", !.attempt = 1, !.tries = Count(@)]
    ELSE CatchAxios(f)

\* the configurations of options.auth: none (null), form, and basic and
\* bearer with their credentials or without password and token
NoCredentials == {"basicNoPassword", "bearerNoToken"}

\* authenticateBasic and authenticateBearer: the headers they return.  They
\* throw synchronously on a missing credential, inside the try block of
\* authenticate, whose catch block logs the error and returns null
authHeaders(auth) ==
    CASE auth \in {"basic", "bearer"} -> "Authorization"
      [] auth \in NoCredentials -> "null"
      [] OTHER -> "null"

\* authenticateCookie: it is async, so its throw rejects the promise that
\* authenticate returns without awaiting it, and the rejection surfaces at
\* the await of makeRequest, in the catch block of crawlWithAxios
authenticateCookie(f) ==
    IF Falsy(options.cookies) THEN CatchAxios(f)
    ELSE EnterLoop([f EXCEPT !.headers = "Cookie",
                             !.cookie = cookieString(options.cookies)])

\* this.authenticate() up to its first await: no auth resolves to null at
\* once, form auth issues the login POST
authenticate(f) ==
    CASE options.auth = "form" -> [f EXCEPT !.pc = "loginWait"]
      [] options.auth = "cookie" -> authenticateCookie(f)
      [] OTHER -> EnterLoop([f EXCEPT !.headers = authHeaders(options.auth)])

makeRequest(f) == authenticate([f EXCEPT !.attempt = 0, !.errs = <<>>,
                                         !.waits = <<>>, !.headers = "none",
                                         !.cookie = <<>>])

\* checkRobotsTxt up to its await, and the use crawlWithAxios makes of it
checkRobotsTxt(f) ==
    LET r == RobotsUrl(f.url) IN
    IF robotsCache[r].has
    THEN IF f.url \notin robotsCache[r].rules
         THEN makeRequest([f EXCEPT !.robots = "cached"])
         ELSE Ret([f EXCEPT !.robots = "cached"], "blocked")
    ELSE [f EXCEPT !.pc = "robotsWait"]

\* crawlWithAxios from its entry to its first await
crawlWithAxios(f) ==
    IF f.url \in visitedUrls THEN Ret(f, "visited")
    ELSE IF Cardinality(visitedUrls) >= options.maxPages THEN Ret(f, "maxPages")
    ELSE IF options.respectRobots THEN checkRobotsTxt(f)
    ELSE makeRequest(f)

\* crawlWithPuppeteer from its entry to await puppeteer.launch
crawlWithPuppeteer(f) == [f EXCEPT !.pc = "launchWait"]

\* crawlWithCurl from its entry to await execPromise(curlCommand)
crawlWithCurl(f) == [f EXCEPT !.pc = "curlWait", !.tries = Count(@)]

\* the pcs at which a document fetch for the frame's url is in flight
FetchPcs == {"getWait", "gotoWait", "curlWait"}

\* a frame returned: the callers below resume.  A caller with links left
\* goes on to the delay before the next link, a caller whose loop is over
\* returns its pageData
RECURSIVE Unwind(_)
Unwind(s) ==
    IF s = <<>> THEN <<>>
    ELSE IF Head(s).links # <<>>
         THEN <<[Head(s) EXCEPT !.pc = "childDelay"]>> \o Tail(s)
         ELSE Unwind(Tail(s))

\* a failure of a call that ends the calls that wait for it as well
PushAbort(s, g) ==
    IF g.pc = "return"
    THEN IF g.reason = "failed" THEN <<>> ELSE Unwind(s)
    ELSE <<g>> \o s

Push(s, g) == IF g.pc = "return" THEN Unwind(s) ELSE <<g>> \o s

\* frame g of operation w has run to its next await (or returned) above the
\* frames s: the stack and the history of the requests g issued
Step(w, s, g) ==
    /\ process = "running"
    /\ UNCHANGED <<process, persisted>>
    /\ UNCHANGED schedulerVars
    /\ stacks' = [stacks EXCEPT ![w] = Push(s, g)]
    /\ fetched' = IF g.pc \in FetchPcs
                  THEN fetched \cup {<<g.url, g.op, g.via>>} ELSE fetched
    /\ failed' = IF g.pc = "return" /\ g.reason = "failed" /\ g.tries > 0
                 THEN failed \cup {g.url} ELSE failed
    /\ again' = IF /\ g.pc \in FetchPcs /\ g.attempt <= 1
                   /\ g.url \in failed \/ <<g.url, g.op, g.via>> \in fetched
                THEN again \cup {[url |-> g.url, via |-> g.via,
                                  wasFailed |-> g.url \in failed,
                                  samePage |-> <<g.url, g.op, g.via>> \in fetched]}
                ELSE again
    /\ refetched' = IF g.pc \in FetchPcs /\ g.url \in visitedUrls
                    THEN refetched \cup {g.url} ELSE refetched
    /\ robotsAgain' = IF g.pc = "robotsWait" /\ RobotsUrl(g.url) \in robotsSettled
                      THEN robotsAgain \cup {RobotsUrl(g.url)} ELSE robotsAgain
    /\ loginPosts' = IF g.pc = "loginWait" THEN loginPosts + 1 ELSE loginPosts
    /\ lastReturn' = IF g.pc = "return"
                     THEN [op |-> g.op, url |-> g.url, reason |-> g.reason,
                           robots |-> g.robots, login |-> g.login,
                           tries |-> g.tries, attempt |-> g.attempt,
                           level |-> g.level, limit |-> g.limit,
                           browser |-> g.browser]
                     ELSE lastReturn

Top(w) == Head(stacks[w])
Rest(w) == Tail(stacks[w])
At(w, pc) == stacks[w] # <<>> /\ Top(w).pc = pc

\* the variables no request touches, for the actions that leave them alone
NoData == UNCHANGED <<options, visitedUrls, crawledData>>
NoRobots == UNCHANGED <<robotsCache, robotsSettled>>


\* links.slice(0, this.options.concurrent)
Slice(s, n) == SubSeq(s, 1, IF Len(s) < n THEN Len(s) ELSE n)

\* the keys of meta in extractPageData and in page.evaluate
MetaKeys == {"description", "keywords", "author", "viewport", "charset"}
EvaluateMetaKeys == {"description", "keywords", "author"}

\* $('meta[name="k"]').attr('content') || '' on the document data of url u
MetaContent(data, u, k) ==
    IF data # "empty" /\ k \in MetaTags(Normalize(u)) THEN "content" ELSE ""

\* new Date(): the time of the model is the number of the call in progress
Now == calls

\* an extraction that leaves out the links the session has recorded before
extractPageDataNewLinks(f, response) ==
    LET seen == UNION {{crawledData[i].links[j] : j \in DOMAIN crawledData[i].links}
                       : i \in DOMAIN crawledData}
    IN [url |-> f.url, by |-> f.op,
        timestamp |-> Now,
        html |-> response.data,
        links |-> SelectSeq(extractLinks(response.data, f.url),
                            LAMBDA l : l \notin seen),
        images |-> extractImages(response.data, f.url),
        meta |-> [k \in MetaKeys |-> MetaContent(response.data, f.url, k)],
        statusCode |-> OrDefault(response.status, 200),
        level |-> f.level, limit |-> f.limit, via |-> f.via, seed |-> f.seed]

\* this.extractPageData($, url, response), $ loaded from the body data
extractPageData(f, response) ==
    [url |-> f.url, by |-> f.op,
     timestamp |-> Now,
     html |-> response.data,
     links |-> extractLinks(response.data, f.url),
     images |-> extractImages(response.data, f.url),
     meta |-> [k \in MetaKeys |-> MetaContent(response.data, f.url, k)],
     statusCode |-> OrDefault(response.status, 200),
     level |-> f.level, limit |-> f.limit, via |-> f.via, seed |-> f.seed]

\* the pageData of page.evaluate in crawlWithPuppeteer, lines 470-494
evaluate(f) ==
    [url |-> Normalize(f.url), by |-> f.op,
     timestamp |-> Now,
     html |-> "page",
     links |-> Properties(Hrefs(f.url), Normalize(f.url)),
     images |-> Properties(Srcs(f.url), Normalize(f.url)),
     meta |-> [k \in EvaluateMetaKeys |-> MetaContent("page", f.url, k)],
     level |-> f.level, limit |-> f.limit, via |-> f.via, seed |-> f.seed]

(***************************************************************************)
(* A caller starts a crawl operation: index.js (crawl, test), the tester,  *)
(* the scheduler.  Only crawlWithAxios reads its options argument.         *)
(***************************************************************************)
Call(w, op, u, d, r) ==
    /\ stacks[w] = <<>>
    /\ calls < MaxCalls
    /\ op # "axios" => d = Absent /\ r = Absent
    /\ calls' = calls + 1
    /\ LET f == NewFrame(op, u, d, r) IN
       Step(w, <<>>, CASE op = "axios" -> crawlWithAxios(f)
                       [] op = "puppeteer" -> crawlWithPuppeteer(f)
                       [] op = "curl" -> crawlWithCurl(f))
    /\ NoData /\ NoRobots /\ UNCHANGED <<loginOk, lastThrow>>

(***************************************************************************)
(* checkRobotsTxt: axios.get(robotsUrl) completed.  how is "rules" (the    *)
(* robots.txt of the host was served), "lenient" (a body without usable    *)
(* directives was served and parsed to a rule set that allows everything)  *)
(* or "fail" (the request or the parser threw).                            *)
(***************************************************************************)
\* a gate that denies when robots.txt could not be fetched or parsed
canCrawlFailClosed(how, u, rules) == how # "fail" /\ u \notin rules

\* the answer of checkRobotsTxt: robots.isAllowed(url), or true from the
\* catch block
canCrawl(how, u, rules) == IF how = "fail" THEN TRUE ELSE u \notin rules

RobotsResponse(w, how) ==
    /\ At(w, "robotsWait")
    /\ LET f == [Top(w) EXCEPT !.robots = how]
           r == RobotsUrl(f.url)
           rules == IF how = "rules" THEN RobotsRules(r) ELSE {}
       IN /\ robotsCache' = IF how = "fail" THEN robotsCache
                            ELSE [robotsCache EXCEPT ![r] = Cached(rules)]
          /\ robotsSettled' = robotsSettled \cup {r}
          /\ Step(w, Rest(w), IF canCrawl(how, f.url, rules) THEN makeRequest(f)
                              ELSE Ret(f, "blocked"))
    /\ NoData /\ UNCHANGED <<calls, loginOk, lastThrow>>

(***************************************************************************)
(* authenticateForm: axios.post(loginUrl, loginData) completed.  how is    *)
(* "cookies" (2xx-3xx with set-cookie), "nocookies" (2xx-3xx without) or   *)
(* "fail" (another status or a transport error).  The rejection of         *)
(* authenticateForm passes through authenticate, which returns the promise *)
(* without awaiting it, and through makeRequest to the catch block of      *)
(* crawlWithAxios.                                                         *)
(***************************************************************************)
\* an authenticate whose catch block swallows the login failure and
\* resolves to null
authenticatedOrNull(f, how) == EnterLoop(f)

\* how the await this.authenticate() of makeRequest ends
authenticated(f, how) ==
    IF how = "fail" THEN CatchAxios(f)
    ELSE EnterLoop([f EXCEPT !.headers = IF how = "cookies" THEN "Cookie"
                                         ELSE "null"])

LoginResponse(w, how) ==
    /\ At(w, "loginWait")
    /\ LET f == [Top(w) EXCEPT !.login = how] IN
       Step(w, Rest(w), authenticated(f, how))
    /\ loginOk' = (loginOk \/ how # "fail")
    /\ NoData /\ NoRobots /\ UNCHANGED <<calls, lastThrow>>

(***************************************************************************)
(* makeRequest: axios(config) completed with a 2xx response ("ok") or      *)
(* with an error.                                                          *)
(***************************************************************************)
\* a wait that doubles from one failed attempt to the next
BackoffDoubling(attempt) == options.delay * 2 ^ (attempt - 1)

\* the wait after failed attempt number attempt
Backoff(attempt) == options.delay * attempt

\* the error makeRequest throws when the last attempt failed with e
Surfaced(f, e) == e

\* a request that takes every response for a success
validateStatusAny(status) == status # 0

\* validateStatus: (status) => status >= 200 && status < 300; a request
\* without a response is rejected by axios
validateStatus(status) == status >= 200 /\ status < 300

\* a test that takes depth 0 for a depth still to follow
FollowLinksAtZero(f) == f.depth # Absent /\ f.depth[1] >= 0

\* if (options.depth > 0), line 425
FollowLinks(f) == Positive(f.depth)

\* a crawl that does not mark the page it fetched
VisitNothing(visited, u) == visited

\* this.visitedUrls.add(url)
Visit(visited, u) == visited \cup {u}

GetResponse(w, how) ==
    /\ At(w, "getWait")
    /\ LET f == Top(w) IN
       IF validateStatus(Status(how))
       THEN \* lines 410-433
            LET response == [status |-> Given(Status(how)), data |-> Data(how)]
                links == IF FollowLinks(f)
                         THEN Slice(extractLinks(response.data, f.url),
                                    options.concurrent)
                         ELSE <<>>
                g == [f EXCEPT !.page = TRUE, !.links = links]
            IN /\ crawledData' = Append(crawledData, extractPageData(f, response))
               /\ visitedUrls' = Visit(visitedUrls, f.url)
               /\ Step(w, Rest(w), IF links = <<>> THEN Ret(g, "ok")
                                   ELSE [g EXCEPT !.pc = "childDelay"])
               /\ UNCHANGED lastThrow
       ELSE \* lines 585-590
            LET g == [f EXCEPT !.errs = Append(@, how)] IN
            /\ UNCHANGED <<crawledData, visitedUrls>>
            /\ IF f.attempt = options.retries
               THEN /\ lastThrow' = [url |-> g.url, errs |-> g.errs,
                                     waits |-> g.waits,
                                     error |-> Surfaced(g, how)]
                    /\ Step(w, Rest(w), CatchAxios(g))
               ELSE /\ UNCHANGED lastThrow
                    /\ Step(w, Rest(w),
                            [g EXCEPT !.pc = "backoffWait",
                                      !.waits = Append(@, Backoff(f.attempt))])
    /\ NoRobots /\ UNCHANGED <<options, calls, loginOk>>

\* makeRequest: the backoff delay is over, the next attempt is issued
BackoffDone(w) ==
    /\ At(w, "backoffWait")
    /\ Step(w, Rest(w), [Top(w) EXCEPT !.pc = "getWait", !.attempt = @ + 1,
                                       !.tries = Count(@)])
    /\ NoData /\ NoRobots /\ UNCHANGED <<calls, loginOk, lastThrow>>

\* crawlWithAxios, lines 427-429: the delay before a link is over and
\* the link is crawled one level deeper
\* a recursive call that passes its own depth on
ChildDepthSame(f) == f.depth

\* { depth: options.depth - 1 }
ChildDepth(f) == Given(f.depth[1] - 1)

ChildDelayDone(w) ==
    /\ At(w, "childDelay")
    /\ LET f == Top(w)
           parent == [f EXCEPT !.pc = "childWait", !.links = Tail(@)]
           child == [NewFrame("axios", Head(f.links), ChildDepth(f), Absent)
                        EXCEPT !.level = f.level + 1, !.limit = f.limit,
                               !.via = f.url, !.seed = f.seed]
       IN Step(w, <<parent>> \o Rest(w), crawlWithAxios(child))
    /\ NoData /\ NoRobots /\ UNCHANGED <<calls, loginOk, lastThrow>>

\* crawlWithAxios, lines 441-442: the delay of the catch block is over and
\* the url is crawled again with one retry less
\* a retry that passes its own retries on
RetryOptionsSame(f) == f.retries

\* { ...options, retries: options.retries - 1 }, line 442
RetryOptions(f) == Given(f.retries[1] - 1)

RetryDelayDone(w) ==
    /\ At(w, "retryDelay")
    /\ LET f == Top(w)
           retry == [NewFrame("axios", f.url, f.depth, RetryOptions(f))
                        EXCEPT !.tries = f.tries, !.level = f.level,
                               !.limit = f.limit, !.via = f.via,
                               !.seed = f.seed, !.before = f.before]
       IN Step(w, Rest(w), crawlWithAxios(retry))
    /\ NoData /\ NoRobots /\ UNCHANGED <<calls, loginOk, lastThrow>>

(***************************************************************************)
(* crawlWithPuppeteer.                                                     *)
(***************************************************************************)
\* a browser that is closed only at the end of the try block
FinallyAfterSuccess(f) ==
    IF f.browser = "open" /\ f.page
    THEN [f EXCEPT !.pc = "closeWait"]
    ELSE Ret(f, "failed")

\* the finally block: if (browser) await browser.close()
Finally(f) ==
    IF f.browser = "open"
    THEN [f EXCEPT !.pc = "closeWait"]
    ELSE Ret(f, "failed")

\* puppeteer.launch completed; newPage, setUserAgent and page.goto follow
PuppeteerLaunched(w, ok) ==
    /\ At(w, "launchWait")
    /\ Step(w, Rest(w), IF ok THEN [Top(w) EXCEPT !.pc = "gotoWait",
                                                  !.browser = "open",
                                                  !.tries = Count(@)]
                        ELSE Finally([Top(w) EXCEPT !.errs = <<"launch">>]))
    /\ NoData /\ NoRobots /\ UNCHANGED <<calls, loginOk, lastThrow>>

\* page.goto completed, how is "ok", "error" (the navigation failed) or
\* "timeout"; waitForTimeout, evaluate and screenshot follow
PuppeteerNavigated(w, how) ==
    /\ At(w, "gotoWait")
    /\ Step(w, Rest(w), IF how = "ok" THEN [Top(w) EXCEPT !.pc = "renderWait"]
                        ELSE Finally([Top(w) EXCEPT !.errs = <<how>>]))
    /\ NoData /\ NoRobots /\ UNCHANGED <<calls, loginOk, lastThrow>>

\* evaluate and screenshot completed, how is "ok", "evaluate" (page.evaluate
\* threw) or "screenshot" (page.screenshot threw); lines 501-502, then
\* finally
\* a page that is stored before its screenshot is taken
StoredBeforeScreenshot(how) == how # "evaluate"

\* lines 501-502 are reached: neither page.evaluate nor page.screenshot
\* threw
Stored(how) == how = "ok"

PuppeteerRendered(w, how) ==
    /\ At(w, "renderWait")
    /\ LET f == Top(w)
           ok == how = "ok"
       IN
       /\ crawledData' = IF Stored(how) THEN Append(crawledData, evaluate(f))
                         ELSE crawledData
       /\ visitedUrls' = IF Stored(how) THEN Visit(visitedUrls, f.url)
                         ELSE visitedUrls
       /\ Step(w, Rest(w), Finally([f EXCEPT !.page = ok,
                                             !.errs = IF ok THEN @ ELSE <<how>>]))
    /\ NoRobots /\ UNCHANGED <<options, calls, loginOk, lastThrow>>

\* browser.close() of the finally block completed
PuppeteerClosed(w) ==
    /\ At(w, "closeWait")
    /\ LET f == [Top(w) EXCEPT !.browser = "closed"] IN
       Step(w, Rest(w), Ret(f, IF f.page THEN "ok" ELSE "failed"))
    /\ NoData /\ NoRobots /\ UNCHANGED <<calls, loginOk, lastThrow>>

(***************************************************************************)
(* crawlWithCurl: the curl process exited.  how is "ok" (exit 0 with       *)
(* output), "empty" (exit 0 without output) or "fail" (non-zero exit:      *)
(* execPromise rejects).                                                   *)
(***************************************************************************)
CurlExited(w, how) ==
    /\ At(w, "curlWait")
    /\ LET f == Top(w)
           ok == how # "fail"
           response == [status |-> Absent,
                        data |-> IF how = "empty" THEN "empty" ELSE "page"]
       IN /\ crawledData' = IF ok
                            THEN Append(crawledData, extractPageData(f, response))
                            ELSE crawledData
          /\ visitedUrls' = IF ok THEN Visit(visitedUrls, f.url) ELSE visitedUrls
          /\ Step(w, Rest(w), Ret([f EXCEPT !.page = ok],
                                  IF ok THEN "ok" ELSE "failed"))
    /\ NoRobots /\ UNCHANGED <<options, calls, loginOk, lastThrow>>

(***************************************************************************)
(* Sessions of one caller: the crawl operations of every strategy, one     *)
(* after the other, on one crawler (as index.js test and the tester run    *)
(* them).                                                                  *)
(***************************************************************************)
Init == InitWith({Given(1), Given(2)}, {Given(0), Given(2)}, {Given(500)},
                 {Absent}, BOOLEAN, {"none", "form"})

Next ==
    \/ \E op \in Ops, u \in Urls, d \in {Absent, Given(1)} : Call(1, op, u, d, Absent)
    \/ \E how \in {"rules", "lenient", "fail"} : RobotsResponse(1, how)
    \/ \E how \in {"cookies", "nocookies", "fail"} : LoginResponse(1, how)
    \/ \E how \in {"ok", "ETIMEDOUT"} : GetResponse(1, how)
    \/ BackoffDone(1)
    \/ ChildDelayDone(1)
    \/ \E ok \in BOOLEAN : PuppeteerLaunched(1, ok)
    \/ \E how \in {"ok", "error"} : PuppeteerNavigated(1, how)
    \/ \E how \in {"ok", "evaluate"} : PuppeteerRendered(1, how)
    \/ PuppeteerClosed(1)
    \/ \E how \in {"ok", "empty", "fail"} : CurlExited(1, how)

Spec == Init /\ [][Next]_vars

(***************************************************************************)
(* Sessions that exercise the retry loop: crawlWithAxios alone, without    *)
(* robots gate and authentication, for every way of configuring retries.   *)
(***************************************************************************)
InitRetry == InitWith({Given(2)}, {Absent, Given(0), Given(1), Given(4)},
                      {Absent, Given(500)}, {Given(1)}, {FALSE}, {"none"})

NextRetry ==
    \/ \E u \in Urls, d \in {Absent, Given(1)}, r \in {Absent, Given(1)} :
          calls < MaxRetryCalls /\ Call(1, "axios", u, d, r)
    \/ \E how \in {"ok"} \cup Errors : GetResponse(1, how)
    \/ BackoffDone(1)
    \/ ChildDelayDone(1)
    \/ RetryDelayDone(1)

SpecRetry == InitRetry /\ [][NextRetry]_vars

(***************************************************************************)
(* Sessions in which a caller has several crawlWithAxios calls in flight   *)
(* on one crawler at the same time.                                        *)
(***************************************************************************)
InitConc == InitWith({Given(1), Given(2)}, {Given(1)}, {Given(500)}, {Absent},
                     BOOLEAN, {"none"})

NextConc ==
    \/ \E w \in Workers, u \in Urls : Call(w, "axios", u, Absent, Absent)
    \/ \E w \in Workers, how \in {"rules", "lenient", "fail"} : RobotsResponse(w, how)
    \/ \E w \in Workers, how \in {"ok", "ETIMEDOUT"} : GetResponse(w, how)

SpecConc == InitConc /\ [][NextConc]_vars

(***************************************************************************)
(* Sessions of a crawler built with basic or bearer authentication, with   *)
(* the credentials and without the password or the token.                  *)
(***************************************************************************)
InitAuth == InitWith({Given(2)}, {Given(1)}, {Given(500)}, {Absent}, BOOLEAN,
                     {"basic", "bearer"} \cup NoCredentials)

NextAuth ==
    \/ \E u \in Urls, d \in {Absent, Given(1)} : Call(1, "axios", u, d, Absent)
    \/ \E how \in {"rules", "fail"} : RobotsResponse(1, how)
    \/ \E how \in {"ok", "ETIMEDOUT"} : GetResponse(1, how)
    \/ ChildDelayDone(1)

SpecAuth == InitAuth /\ [][NextAuth]_vars

(***************************************************************************)
(* Sessions that follow links: crawlWithAxios alone, called with every     *)
(* depth up to two, with and without the robots gate, with the default     *)
(* number of links followed per page and with one.                         *)
(***************************************************************************)
InitCrawl == InitWith({Given(1), Given(2), Absent}, {Given(1)}, {Given(500)},
                      {Absent, Given(1)}, BOOLEAN, {"none"})

NextCrawl ==
    \/ \E u \in Urls, d \in {Absent, Given(0), Given(1), Given(2)} :
          Call(1, "axios", u, d, Absent)
    \/ \E how \in {"rules", "fail"} : RobotsResponse(1, how)
    \/ \E how \in {"ok", "ETIMEDOUT"} : GetResponse(1, how)
    \/ ChildDelayDone(1)

SpecCrawl == InitCrawl /\ [][NextCrawl]_vars

(***************************************************************************)
(* Sessions checked for termination: crawlWithAxios called with depth 1   *)
(* and 2 on the cyclic link graph, with and without retries of the call,   *)
(* every fetch free to fail.  Every step is the completion of a request, a timer *)
(* or a call that the event loop runs once it is due, hence the weak       *)
(* fairness of the next-state relation.                                    *)
(***************************************************************************)
InitTerm == InitWith({Given(2), Absent}, {Given(1), Given(2)}, {Given(500)},
                     {Absent}, {FALSE}, {"none"})

NextTerm ==
    \/ \E u \in Urls, d \in {Given(1), Given(2)}, r \in {Absent, Given(1)} :
          calls < MaxTermCalls /\ Call(1, "axios", u, d, r)
    \/ \E how \in {"ok", "ETIMEDOUT"} : GetResponse(1, how)
    \/ BackoffDone(1)
    \/ ChildDelayDone(1)
    \/ RetryDelayDone(1)

SpecTerm == InitTerm /\ [][NextTerm]_vars /\ WF_vars(NextTerm)

(***************************************************************************)
(* Sessions that compare the strategies: each crawl operation called for   *)
(* single pages, with and without authentication, every fetch free to fail *)
(* in each of the ways its strategy knows.                                 *)
(***************************************************************************)
InitFetch == InitWith({Absent}, {Given(2)}, {Given(500)}, {Absent}, {FALSE},
                      {"none", "basic", "bearer"})

NextFetch ==
    \/ \E op \in Ops, u \in Urls : Call(1, op, u, Absent, Absent)
    \/ \E how \in {"ok", "HTTP204", "HTTP404", "HTTP500", "ETIMEDOUT"} :
          GetResponse(1, how)
    \/ BackoffDone(1)
    \/ \E ok \in BOOLEAN : PuppeteerLaunched(1, ok)
    \/ \E how \in {"ok", "error", "timeout"} : PuppeteerNavigated(1, how)
    \/ \E how \in {"ok", "evaluate", "screenshot"} : PuppeteerRendered(1, how)
    \/ PuppeteerClosed(1)
    \/ \E how \in {"ok", "empty", "fail"} : CurlExited(1, how)

SpecFetch == InitFetch /\ [][NextFetch]_vars

(***************************************************************************)
(* Sessions whose caller names the front page without its path, as         *)
(* index.js passes the --url argument on.                                  *)
(***************************************************************************)
InitSeed == InitWith({Absent}, {Given(1)}, {Given(500)}, {Absent}, {FALSE},
                     {"none"})

NextSeed ==
    \/ \E op \in Ops, u \in {U1raw, U1, U1b}, d \in {Absent, Given(1), Given(2)} :
          Call(1, op, u, d, Absent)
    \/ \E how \in {"ok", "ETIMEDOUT"} : GetResponse(1, how)
    \/ ChildDelayDone(1)
    \/ \E ok \in BOOLEAN : PuppeteerLaunched(1, ok)
    \/ \E how \in {"ok", "error"} : PuppeteerNavigated(1, how)
    \/ \E how \in {"ok", "evaluate"} : PuppeteerRendered(1, how)
    \/ PuppeteerClosed(1)
    \/ \E how \in {"ok", "empty", "fail"} : CurlExited(1, how)

SpecSeed == InitSeed /\ [][NextSeed]_vars

(***************************************************************************)
(* The session of the crawl command of index.js under an interrupt: the    *)
(* crawl, then saveData, and SIGINT at any time.  index.js installs no      *)
(* handler for the signal, so the process ends at once; the handler of the  *)
(* scheduler stops the cron jobs and calls process.exit(0).                 *)
(***************************************************************************)
\* await crawler.saveData() after the crawl returned, index.js line 135
SaveData ==
    /\ process = "running" /\ persisted = Absent
    /\ calls > 0 /\ \A w \in Workers : stacks[w] = <<>>
    /\ persisted' = Given(crawledData)
    /\ UNCHANGED <<options, visitedUrls, crawledData, robotsCache, stacks, calls,
                   fetched, refetched, failed, again, robotsSettled,
                   robotsAgain, loginPosts, loginOk, lastThrow, lastReturn,
                   process>>
    /\ UNCHANGED schedulerVars

\* process.on('SIGINT') of the scheduler: stopAllJobs(), process.exit(0);
\* the crawl command registers no handler and the process ends the same way
Sigint ==
    /\ process = "running" /\ calls > 0
    /\ process' = "exited"
    /\ UNCHANGED <<options, visitedUrls, crawledData, robotsCache, stacks, calls,
                   fetched, refetched, failed, again, robotsSettled,
                   robotsAgain, loginPosts, loginOk, lastThrow, lastReturn,
                   persisted>>
    /\ UNCHANGED schedulerVars

InitCancel == InitWith({Absent}, {Given(1)}, {Given(500)}, {Absent}, {FALSE},
                       {"none"})

NextCancel ==
    \/ \E u \in Urls, d \in {Given(1), Given(2)} :
          persisted = Absent /\ Call(1, "axios", u, d, Absent)
    \/ \E how \in {"ok", "ETIMEDOUT"} : GetResponse(1, how)
    \/ ChildDelayDone(1)
    \/ SaveData
    \/ Sigint

SpecCancel == InitCancel /\ [][NextCancel]_vars

(***************************************************************************)
(* Cookie authentication: the crawler is constructed with each form of      *)
(* cookies, and with none, and fetches with crawlWithAxios.                 *)
(***************************************************************************)
InitCookie ==
    InitOf({Absent}, {Given(2)}, {Given(500)}, {Absent}, {FALSE}, {"cookie"},
           {authCookies(input) : input \in CookieInputs} \cup {NoCookies},
           {Absent}, {"none"})

NextCookie ==
    \/ \E u \in {U1, U1b} : Call(1, "axios", u, Absent, Absent)
    \/ \E how \in {"ok", "ETIMEDOUT"} : GetResponse(1, how)
    \/ BackoffDone(1)

SpecCookie == InitCookie /\ [][NextCookie]_vars

(***************************************************************************)
(* Crawlers configured with maxDepth, called as a scheduler job calls       *)
(* them, crawlWithAxios(jobConfig.url) without options, and as the crawl    *)
(* command does, with a depth.                                              *)
(***************************************************************************)
InitDepth ==
    InitOf({Absent}, {Given(1)}, {Given(500)}, {Absent}, {FALSE}, {"none"},
           {NoCookies}, {Absent, Given(1), Given(2)}, {"none"})

NextDepth ==
    \/ \E u \in Urls, d \in {Absent, Given(2)} : Call(1, "axios", u, d, Absent)
    \/ \E how \in {"ok", "ETIMEDOUT"} : GetResponse(1, how)
    \/ ChildDelayDone(1)

SpecDepth == InitDepth /\ [][NextDepth]_vars

(***************************************************************************)
(* CrawlerScheduler.  A job configuration is its name, its enabled flag    *)
(* and whether notifications.webhook is set.  The methods run without an   *)
(* await that waits for I/O, so each is one step; a method that reads       *)
(* this.config.jobs while this.config is undefined throws a TypeError.      *)
(***************************************************************************)
MaxJobs == 2
MaxTasks == 2
MaxRuns == 3

JobConfig(n, e, wh) == [name |-> n, enabled |-> e, webhook |-> wh]

\* a scheduler-config.json
FileConfig == <<JobConfig("news-crawler", TRUE, TRUE)>>

getDefaultConfig == <<JobConfig("news-crawler", TRUE, FALSE),
                      JobConfig("daily-screenshot", TRUE, FALSE)>>

\* scheduleJob: cron.schedule, this.jobs.set(jobConfig.name, job), job.start()
scheduleJob(s, jc) ==
    [jobs  |-> [s.jobs EXCEPT ![jc.name] = Len(s.tasks) + 1],
     tasks |-> Append(s.tasks, [name |-> jc.name, webhook |-> jc.webhook,
                                running |-> TRUE])]

\* the loop of start(): scheduleJob for every enabled job of the config
RECURSIVE ScheduleEnabled(_, _)
ScheduleEnabled(s, jcs) ==
    IF jcs = <<>> THEN s
    ELSE ScheduleEnabled(IF Head(jcs).enabled THEN scheduleJob(s, Head(jcs))
                         ELSE s, Tail(jcs))

\* job.stop() for the tasks in the set is
Stop(ts, is) == [i \in DOMAIN ts |-> IF i \in is
                                     THEN [ts[i] EXCEPT !.running = FALSE]
                                     ELSE ts[i]]

Tracked == {jobs[n] : n \in JobNames} \ {0}

\* a method of the scheduler may run: the process lives, and the action of
\* the command it was started for runs before anything else does
Runnable(m) == process = "running" /\ pending \in {"none", m}

\* an access to this.config.jobs by method m, recorded when the action of
\* a command makes it
Read(m) == reads' = IF pending = m
                    THEN reads \cup {[by |-> m, loaded |-> config # Absent]}
                    ELSE reads

\* a TypeError that no one catches: in a command it ends the process
Throws == process' = IF pending = "none" THEN process ELSE "exited"

\* fs.readFile of loadConfig completed, how is "file" or "error" (no file,
\* or JSON.parse threw); it cannot complete before the synchronous part of
\* the command has run
LoadConfigDone(how) ==
    /\ process = "running" /\ pending = "none" /\ config = Absent
    /\ config' = Given(IF how = "file" THEN FileConfig ELSE getDefaultConfig)
    /\ UNCHANGED <<pending, jobs, tasks, handler, runs, posts, reads, lastOp>>
    /\ UNCHANGED <<crawlerVars, process>>

start ==
    /\ Runnable("start") /\ ~handler
    /\ Read("start")
    /\ pending' = "none"
    /\ lastOp' = [op |-> "start", name |-> ""]
    /\ IF config = Absent
       THEN Throws /\ UNCHANGED <<jobs, tasks, handler>>
       ELSE LET s == ScheduleEnabled([jobs |-> jobs, tasks |-> tasks], config[1])
            IN /\ Len(s.tasks) <= MaxTasks
               /\ jobs' = s.jobs /\ tasks' = s.tasks
               /\ handler' = TRUE
               /\ UNCHANGED process
    /\ UNCHANGED <<config, runs, posts>>
    /\ UNCHANGED crawlerVars

listJobs ==
    /\ Runnable("list")
    /\ Read("list")
    /\ pending' = "none"
    /\ lastOp' = [op |-> "listJobs", name |-> ""]
    /\ IF config = Absent THEN Throws ELSE UNCHANGED process
    /\ UNCHANGED <<config, jobs, tasks, handler, runs, posts>>
    /\ UNCHANGED crawlerVars

addJob(jc) ==
    /\ Runnable("add")
    /\ Read("add")
    /\ pending' = "none"
    /\ lastOp' = [op |-> "addJob", name |-> jc.name]
    /\ IF config = Absent
       THEN Throws /\ UNCHANGED <<config, jobs, tasks>>
       ELSE LET s == IF jc.enabled
                     THEN scheduleJob([jobs |-> jobs, tasks |-> tasks], jc)
                     ELSE [jobs |-> jobs, tasks |-> tasks]
            IN /\ Len(config[1]) < MaxJobs /\ Len(s.tasks) <= MaxTasks
               /\ config' = Given(Append(config[1], jc))
               /\ jobs' = s.jobs /\ tasks' = s.tasks
               /\ UNCHANGED process
    /\ UNCHANGED <<handler, runs, posts>>
    /\ UNCHANGED crawlerVars

removeJob(name) ==
    /\ Runnable("remove")
    /\ tasks' = Stop(tasks, {jobs[name]})
    /\ jobs' = [jobs EXCEPT ![name] = 0]
    /\ Read("remove")
    /\ lastOp' = [op |-> "removeJob", name |-> name]
    /\ config' = IF config = Absent THEN config
                 ELSE Given(SelectSeq(config[1], LAMBDA jc : jc.name # name))
    /\ UNCHANGED <<pending, handler, runs, posts>>
    /\ UNCHANGED <<crawlerVars, process>>

stopAllJobs ==
    /\ Runnable("stop")
    /\ tasks' = Stop(tasks, Tracked)
    /\ jobs' = [n \in JobNames |-> 0]
    /\ lastOp' = [op |-> "stopAllJobs", name |-> ""]
    /\ UNCHANGED <<config, pending, handler, runs, posts, reads>>
    /\ UNCHANGED <<crawlerVars, process>>

\* the SIGINT handler that start() registered: stopAllJobs(), process.exit(0)
SchedulerSigint ==
    /\ process = "running" /\ handler
    /\ tasks' = Stop(tasks, Tracked)
    /\ jobs' = [n \in JobNames |-> 0]
    /\ lastOp' = [op |-> "stopAllJobs", name |-> ""]
    /\ process' = "exited"
    /\ UNCHANGED <<config, pending, handler, runs, posts, reads>>
    /\ UNCHANGED crawlerVars

\* cron fires task i: the job callback runs to await crawler.crawlWith...
Tick(i) ==
    /\ process = "running" /\ pending = "none"
    /\ i \in DOMAIN tasks /\ tasks[i].running
    /\ Len(runs) < MaxRuns
    /\ runs' = Append(runs, [task |-> i, name |-> tasks[i].name,
                             webhook |-> tasks[i].webhook, pc |-> "crawl",
                             result |-> "", saved |-> FALSE])
    /\ UNCHANGED <<config, pending, jobs, tasks, handler, posts, reads, lastOp>>
    /\ UNCHANGED <<crawlerVars, process>>

\* sendNotification(jobConfig, {success, ...}) up to await axios.post
sendNotification(k, run, success) ==
    IF run.webhook
    THEN /\ runs' = [runs EXCEPT ![k] = [run EXCEPT !.pc = "post"]]
         /\ posts' = Append(posts, [run |-> k, job |-> run.name,
                                    success |-> success])
    ELSE /\ runs' = [runs EXCEPT ![k] = [run EXCEPT !.pc = "done"]]
         /\ UNCHANGED posts

\* the crawl of execution k returned its page data, or null
CrawlReturned(k, how) ==
    /\ process = "running"
    /\ k \in DOMAIN runs /\ runs[k].pc = "crawl"
    /\ runs' = [runs EXCEPT ![k] = [@ EXCEPT !.result = how,
                                             !.pc = IF how = "data" THEN "save"
                                                    ELSE "done"]]
    /\ UNCHANGED <<config, pending, jobs, tasks, handler, posts, reads, lastOp>>
    /\ UNCHANGED <<crawlerVars, process>>

\* crawler.saveData() of execution k completed, or threw into the catch
\* block
SaveDataDone(k, ok) ==
    /\ process = "running"
    /\ k \in DOMAIN runs /\ runs[k].pc = "save"
    /\ sendNotification(k, [runs[k] EXCEPT !.saved = ok], ok)
    /\ UNCHANGED <<config, pending, jobs, tasks, handler, reads, lastOp>>
    /\ UNCHANGED <<crawlerVars, process>>

\* axios.post of the notification completed or failed
PostDone(k) ==
    /\ process = "running"
    /\ k \in DOMAIN runs /\ runs[k].pc = "post"
    /\ runs' = [runs EXCEPT ![k] = [@ EXCEPT !.pc = "done"]]
    /\ UNCHANGED <<config, pending, jobs, tasks, handler, posts, reads, lastOp>>
    /\ UNCHANGED <<crawlerVars, process>>

\* the scheduler commands start, list and add, and a program that uses the
\* class
InitScheduler ==
    InitOf({Absent}, {Absent}, {Absent}, {Absent}, {TRUE}, {"none"},
           {NoCookies}, {Absent}, {"none", "start", "list", "add"})

NextScheduler ==
    \/ \E how \in {"file", "error"} : LoadConfigDone(how)
    \/ start
    \/ listJobs
    \/ \E n \in JobNames : addJob(JobConfig(n, TRUE, FALSE))
    \/ \E n \in JobNames : removeJob(n)
    \/ stopAllJobs
    \/ SchedulerSigint

SpecScheduler == InitScheduler /\ [][NextScheduler]_vars

\* the start command and the executions of the jobs it scheduled
InitJobs ==
    InitOf({Absent}, {Absent}, {Absent}, {Absent}, {TRUE}, {"none"},
           {NoCookies}, {Absent}, {"none"})

NextJobs ==
    \/ \E how \in {"file", "error"} : LoadConfigDone(how)
    \/ start
    \/ \E i \in 1..MaxTasks : Tick(i)
    \/ \E k \in 1..MaxRuns, how \in {"data", "null"} : CrawlReturned(k, how)
    \/ \E k \in 1..MaxRuns, ok \in BOOLEAN : SaveDataDone(k, ok)
    \/ \E k \in 1..MaxRuns : PostDone(k)
    \/ SchedulerSigint

SpecJobs == InitJobs /\ [][NextJobs]_vars

\* every call frame of every operation in flight
Frames == UNION {{stacks[w][i] : i \in 1..Len(stacks[w])} : w \in Workers}

TypeOK ==
    /\ visitedUrls \subseteq Urls \cup {U1raw}
    /\ calls \in 0..MaxCalls
    /\ \A f \in Frames : f.url \in Urls \cup {U1raw} /\ f.op \in Ops

(***************************************************************************)
(* Properties.                                                             *)
(***************************************************************************)
Records == {crawledData[i] : i \in 1..Len(crawledData)}

\* C1: the number of URLs in the visited set never exceeds maxPages,
\* whatever crawl operations ran.
C1_VisitedWithinMaxPages == Cardinality(visitedUrls) <= options.maxPages

\* C2: each URL is consumed at most once: crawledData never holds two
\* records of one URL and a URL in the visited set is never fetched again.
C2_ConsumedOnce ==
    /\ \A i, j \in 1..Len(crawledData) :
          crawledData[i].url = crawledData[j].url => i = j
    /\ refetched = {}

\* C3: of two crawlWithAxios calls in flight for the same URL at most one
\* fetches it (check and insertion of the visited set are one atomic step),
\* and the admitted count is not exceeded.
C3_AtomicAdmission ==
    /\ \A v, w \in Workers :
          (/\ v # w
           /\ stacks[v] # <<>> /\ stacks[w] # <<>>
           /\ Top(v).url = Top(w).url
           /\ Top(v).pc \in FetchPcs)
          => Top(w).pc \notin FetchPcs
    /\ Cardinality(visitedUrls) <= options.maxPages

\* C4: a crawl that ends on a permanently failing fetch has attempted the
\* URL exactly retries + 1 times (1 initial attempt + retries retries), for
\* every configured retries >= 0.
C4_AttemptsIsRetriesPlusOne ==
    lastReturn.reason = "failed" => lastReturn.tries = options.retries + 1

\* C5: in the retry loop of makeRequest the wait after failed attempt k is
\* delay * k, there is no wait after the last attempt, and the error thrown
\* is the error of the last attempt.
LinearWaits(waits) == \A k \in 1..Len(waits) : waits[k] = options.delay * k

RequestPcs == {"loginWait", "getWait", "backoffWait", "childDelay",
               "childWait", "retryDelay"}

C6_RobotsFailOpen ==
    /\ \A f \in Frames :
          f.robots \in {"fail", "lenient"} => f.pc \in RequestPcs
    /\ lastReturn.robots \in {"fail", "lenient"} =>
          lastReturn.reason \in {"ok", "failed"}

\* C6 witness: a URL that the rules of its host deny was crawled to a page
\* record because robots.txt could not be fetched.
C6_Witness ==
    /\ lastReturn.robots = "fail"
    /\ lastReturn.url \in RobotsRules(RobotsUrl(lastReturn.url))
    /\ lastReturn.reason = "ok"

\* C7: robots.txt is requested at most once per host: once the first check
\* of a host completed, successfully or not, no further request for its
\* robots.txt is issued.
C7_RobotsOncePerHost == robotsAgain = {}

\* C8: with respectRobots enabled, the robots check precedes every document
\* fetch of every strategy, so that a URL the cached or fetched rules deny
\* is never fetched.
C8_RobotsPrecedesFetch ==
    options.respectRobots =>
        \A f \in Frames :
            f.pc \in FetchPcs =>
                /\ f.robots # "none"
                /\ f.robots \in {"rules", "cached"} =>
                      f.url \notin robotsCache[RobotsUrl(f.url)].rules

C10_LoginOnce == loginPosts <= 1

\* C11: with basic authentication lacking the username or the password, or
\* bearer authentication lacking the token, the crawl fails before any
\* network call: no request for robots.txt and no fetch of the target is
\* issued without resolved credentials.
C11_NoFetchWithoutCredentials ==
    options.auth \in NoCredentials =>
        /\ fetched = {}
        /\ \A f \in Frames : f.pc \notin RequestPcs

\* the pages the anchors of page u lead to
Linked(u) == {Anchors(u)[i] : i \in DOMAIN Anchors(u)}

\* the pages at most k links away from page s
RECURSIVE Within(_, _)
Within(s, k) ==
    IF k = 0 THEN {s}
    ELSE LET W == Within(s, k - 1) IN W \cup UNION {Linked(u) : u \in W}

\* the depth of page u relative to the seed s: the least number of links
\* that lead from s to u, and more than any depth when none does
Depth(s, u) ==
    LET N == Cardinality(Urls)
    IN IF \E k \in 0..N : u \in Within(s, k)
       THEN CHOOSE k \in 0..N : u \in Within(s, k)
                                /\ \A j \in 0..(k - 1) : u \notin Within(s, j)
       ELSE N + 1

AxiosRecords == {r \in Records : r.by = "axios"}

\* C12 as stated: no page record lists a link to a URL whose depth relative
\* to the seed exceeds the depth the crawl was started with.
C12_LinksWithinDepth ==
    \A r \in AxiosRecords : \A i \in DOMAIN r.links :
        Depth(r.seed, r.links[i]) <= r.limit

\* C12: no page record is produced for a URL that lies more links from the
\* seed than the depth the crawl was started with, and no call is made for
\* one; the links a record lists may lie one level deeper.
C12_RecordsWithinDepth ==
    /\ \A r \in AxiosRecords : Depth(r.seed, r.url) <= r.level /\ r.level <= r.limit
    /\ \A f \in Frames : f.op = "axios" => f.level <= f.limit

\* a page at the last level of a crawl that follows links is recorded with
\* links that lie beyond the depth of the crawl
C12_Witness ==
    \E r \in AxiosRecords :
        /\ r.level >= 1 /\ r.level = r.limit
        /\ \E i \in DOMAIN r.links : Depth(r.seed, r.links[i]) > r.limit

\* the records of the pages through which the crawl reached the page of
\* record r, the page that links to it first
RECURSIVE Ancestors(_)
Ancestors(r) ==
    LET above == {p \in AxiosRecords : /\ p.url = r.via /\ p.seed = r.seed
                                       /\ p.level = r.level - 1}
    IN IF r.level = 0 \/ above = {} THEN {}
       ELSE LET p == CHOOSE p \in above : TRUE IN {p} \cup Ancestors(p)

\* C13 as stated: the traversal is breadth-first, every URL of depth d
\* that is fetched is fetched before any URL of depth d+1.
C13_BreadthFirst ==
    \A i, j \in DOMAIN crawledData :
        LET a == crawledData[i]
            b == crawledData[j]
        IN i < j /\ a.by = "axios" /\ b.by = "axios" /\ a.seed = b.seed
           => Depth(a.seed, a.url) <= Depth(b.seed, b.url)

\* C13: the traversal is depth-first.  A URL is fetched only after the
\* page that links to it was fetched, recorded and marked visited, and the
\* page fetched next is reached through a link of the page fetched last or
\* of one of the pages that led to it; the calls in flight form a chain of
\* pages each of which links to the next.
C13_DepthFirst ==
    /\ \A j \in DOMAIN crawledData :
          LET b == crawledData[j]
          IN b.by = "axios" /\ b.level > 0 =>
                /\ \E p \in Ancestors(b) : p.url = b.via
                /\ \A p \in Ancestors(b) : \E i \in 1..(j - 1) : crawledData[i] = p
                /\ j > 1
                /\ LET a == crawledData[j - 1]
                   IN a.seed = b.seed => b.via \in {a.url} \cup
                                            {p.url : p \in Ancestors(a)}
    /\ \A i \in 1..(Len(stacks[1]) - 1) :
          LET child == stacks[1][i]
              parent == stacks[1][i + 1]
          IN /\ child.via = parent.url /\ child.level = parent.level + 1
             /\ parent.url \in visitedUrls
             /\ \E r \in AxiosRecords : r.url = parent.url

\* a page two links from the seed was fetched before a page one link from it
C13_Witness ==
    \E i, j \in DOMAIN crawledData :
        /\ i < j /\ crawledData[i].seed = crawledData[j].seed
        /\ crawledData[i].level = 2 /\ crawledData[j].level = 1
        /\ Depth(crawledData[i].seed, crawledData[i].url) = 2
        /\ Depth(crawledData[j].seed, crawledData[j].url) = 1

\* C14: a crawl started with depth 0 (or without a depth) whose seed is
\* fetched fetches none of the links of the seed, and with maxPages = 1 the
\* session holds exactly one page record, the one of the seed.
C14_SeedOnly ==
    \A r \in AxiosRecords : r.limit = 0 =>
        /\ r.level = 0 /\ r.url = r.seed
        /\ \A x \in fetched : x[3] # r.url
        /\ options.maxPages = 1 => crawledData = <<r>>

\* the crawl of a seed with links returned with depth 0 and maxPages = 1
C14_Witness ==
    /\ options.maxPages = 1 /\ stacks[1] = <<>>
    /\ lastReturn.reason = "ok" /\ lastReturn.limit = 0 /\ lastReturn.level = 0
    /\ \E r \in AxiosRecords : r.url = lastReturn.url /\ Len(r.links) >= 2

\* C15: a page with two anchors to one URL is recorded with both links,
\* and that URL is fetched at most once as a child of the page, whether its
\* first fetch succeeds or fails.
C15_DuplicateLinkFetchedOnce ==
    /\ \A r \in AxiosRecords : r.links = Anchors(r.url)
    /\ \A x \in again : x.via # "" => ~x.samePage

\* C16: the links of a URL that was blocked or whose fetch failed are never
\* fetched: a URL is fetched through a link only of a page that was fetched
\* and recorded, and only a call that produced its page holds links to
\* follow.
C16_ChildrenOfSucceededOnly ==
    /\ \A x \in fetched : x[3] # "" => \E r \in Records : r.url = x[3]
    /\ \A f \in Frames :
          /\ f.links # <<>> => f.page
          /\ f.level > 0 => \E r \in Records : r.url = f.via

\* a page with links was blocked when crawled with a depth to follow, the
\* fetch of another page with links failed, and no link of either was
\* fetched
C16_Witness ==
    /\ stacks[1] = <<>>
    /\ lastReturn.reason = "blocked" /\ lastReturn.limit > lastReturn.level
    /\ Anchors(lastReturn.url) # <<>>
    /\ \E u \in failed \ visitedUrls :
          /\ Anchors(u) # <<>>
          /\ \A x \in fetched : x[3] \notin {u, lastReturn.url}

\* the crawl of page record r followed link l: the page of l is marked
\* visited or was fetched through r
Followed(r, l) == l \in visitedUrls \/ <<l, "axios", r.url>> \in fetched

\* the page records of the calls that had a depth left to follow links
Expanded == {r \in AxiosRecords : r.level < r.limit}

\* C17: when a page above the last level is fetched, every link extracted
\* from it is offered to the crawl: each link not yet visited is fetched as
\* long as maxPages is not reached, wherever it stands in the list.
C17_EveryLinkOffered ==
    /\ stacks[1] = <<>> /\ ~options.respectRobots
    /\ Cardinality(visitedUrls) < options.maxPages
    => \A r \in Expanded : \A i \in DOMAIN r.links : Followed(r, r.links[i])

\* C19: a URL that fails, by a fetch error or a robots denial, does not end
\* the session.  The page records collected stay in the result, and when
\* the crawl has returned every link the loop takes from a recorded page
\* was processed, those after a failed one as well: it is visited, was
\* fetched, or is denied by robots.txt, unless maxPages was reached.
C19_FailureDoesNotAbort ==
    /\ \A u \in visitedUrls : \E r \in Records : r.url = u
    /\ \A r \in AxiosRecords : Ancestors(r) \subseteq Records
    /\ stacks[1] = <<>> /\ Cardinality(visitedUrls) < options.maxPages
       => \A r \in Expanded :
             LET links == Slice(r.links, options.concurrent)
             IN \A i \in DOMAIN links :
                   \/ Followed(r, links[i])
                   \/ /\ options.respectRobots
                      /\ links[i] \in RobotsRules(RobotsUrl(links[i]))

\* the fetch of the first link of a page failed, and a later link of the
\* page was fetched and recorded next to the record of the page
C19_Witness ==
    /\ stacks[1] = <<>>
    /\ \E r \in Expanded : \E i, j \in DOMAIN r.links :
          /\ i < j /\ j <= options.concurrent
          /\ r.links[i] \in failed \ visitedUrls
          /\ <<r.links[i], "axios", r.url>> \in fetched
          /\ \E c \in AxiosRecords : c.url = r.links[j] /\ c.via = r.url

\* C20: a URL whose fetch failed terminally is in the visited set
\* afterwards and is not fetched again in the session.
C20_FailedIsVisited ==
    /\ failed \subseteq visitedUrls
    /\ \A x \in again : ~x.wasFailed

\* C18: every crawl terminates, on cyclic link graphs and when every fetch
\* fails: a crawl that was started returns, and no URL is fetched as often
\* as the fetch counter can count.
C18_Terminates ==
    /\ [](\A f \in Frames : f.tries < MaxTries)
    /\ (stacks[1] # <<>>) ~> (stacks[1] = <<>>)

\* a crawl on the cycle between two pages has returned after fetches failed
C18_Witness ==
    /\ stacks[1] = <<>> /\ calls > 0
    /\ {U1, U1b} \subseteq visitedUrls
    /\ failed # {} /\ again # {}

\* C21: whenever crawlWithPuppeteer launched a browser, the browser is
\* closed when the call returns, whether the call ended by success, by a
\* navigation error, a timeout, an error of page.evaluate or an error of
\* page.screenshot; between the calls no browser is open.
C21_BrowserClosed ==
    /\ lastReturn.op = "puppeteer" => lastReturn.browser \in {"none", "closed"}
    /\ \A f \in Frames : f.browser = "open" =>
          f.op = "puppeteer" /\ f.pc \in {"gotoWait", "renderWait", "closeWait"}
    /\ \A f \in Frames : f.errs # <<>> /\ f.op = "puppeteer" /\ f.browser = "open"
                           => f.pc = "closeWait"

\* a call whose browser was launched and whose navigation, evaluation or
\* screenshot failed has returned, with the browser closed
C21_Witness ==
    /\ stacks[1] = <<>>
    /\ lastReturn.op = "puppeteer" /\ lastReturn.reason = "failed"
    /\ lastReturn.browser = "closed" /\ lastReturn.tries = 1

\* C22: in crawlWithCurl a non-zero exit and an empty standard output are
\* fetch errors: the call produces no page record and does not mark the
\* URL, so every record of the strategy holds a document and a call that
\* failed or got no output leaves no record.
C22_CurlErrorNoRecord ==
    \A r \in Records : r.by = "curl" => r.html # "empty"

\* C23: crawlWithAxios takes only 2xx responses for a success.  A response
\* with another status is an error of the attempt, retried like a request
\* that got no response, and when it persists through the attempts the call
\* fails without a record; every record of crawlWithAxios has a 2xx
\* statusCode.
C23_Only2xx ==
    /\ \A r \in AxiosRecords : r.statusCode >= 200 /\ r.statusCode < 300
    /\ \A f \in Frames : f.op = "axios" /\ f.errs # <<>> => ~f.page
    /\ lastThrow.errs # <<>> => Len(lastThrow.errs) = options.retries

\* one call recorded a page served with status 204, another call failed
\* after a 404 and a 500 response
C23_Witness ==
    /\ \E r \in AxiosRecords : r.statusCode = 204
    /\ lastThrow.errs = <<"HTTP404", "HTTP500">>
    /\ lastReturn.reason = "failed" /\ lastReturn.url \notin visitedUrls

\* C24: when an authentication mode is configured and resolves, every
\* document fetch of the session carries the resolved header, whichever
\* strategy issues it.
C24_HeadersInAllFetches ==
    options.auth \in {"basic", "bearer"} =>
        \A f \in Frames : f.pc \in FetchPcs => f.headers = "Authorization"

\* C25: the retry controller wraps the fetch of every strategy: a call that
\* failed at its fetch, with retries configured, has attempted the fetch
\* more than once, under crawlWithPuppeteer and crawlWithCurl as under
\* crawlWithAxios.
C25_RetryEveryStrategy ==
    /\ lastReturn.reason = "failed" /\ lastReturn.tries > 0
    /\ options.retries >= 2
    => lastReturn.tries >= 2

\* C26: the visited set is keyed by normalized URLs: two URL strings that
\* normalize to one URL are one member, and a URL whose normalization is in
\* the set is not fetched again by crawlWithAxios.
C26_VisitedNormalized ==
    /\ \A u, v \in visitedUrls : Normalize(u) = Normalize(v) => u = v
    /\ \A f \in Frames : f.op = "axios" /\ f.pc \in FetchPcs =>
          Normalize(f.url) \notin {Normalize(v) : v \in visitedUrls}

\* the references of refs, by their indices, that base resolves
Resolvable(refs, base) == {i \in DOMAIN refs : Resolve(refs[i], base) # Absent}

\* sequence out has exactly one entry, in document order, for each of the
\* references of refs that base resolves: the resolved reference
OnePerResolvable(out, refs, base) ==
    LET K == Resolvable(refs, base)
    IN /\ Len(out) = Cardinality(K)
       /\ \A i \in K :
             out[Cardinality({j \in K : j <= i})] = Resolve(refs[i], base)[1]

\* C27: the links and the images of every page record have exactly one
\* entry, in document order, for each anchor and image of the document
\* whose href or src can be absolutized; a malformed one is skipped and the
\* rest of the page is extracted.
C27_OneEntryPerElement ==
    \A r \in Records : r.html = "page" =>
        /\ OnePerResolvable(r.links, Hrefs(r.url), r.url)
        /\ OnePerResolvable(r.images, Srcs(r.url), r.url)

\* C28: every page record, whichever strategy produced it, has the five
\* metadata keys description, keywords, author, viewport and charset, each
\* a string that is empty when the document has no such meta tag.
C28_FiveMetaKeys ==
    \A r \in Records :
        /\ DOMAIN r.meta = MetaKeys
        /\ \A k \in MetaKeys :
              r.meta[k] = IF r.html = "page" /\ k \in MetaTags(Normalize(r.url))
                          THEN "content" ELSE ""

\* the page records that extractPageData produced
Extracted == {r \in Records : r.by \in {"axios", "curl"}}

\* the fields of a page record that extractPageData fills from the document
Contents(r) ==
    [url |-> r.url, html |-> r.html, links |-> r.links, images |-> r.images,
     meta |-> r.meta, statusCode |-> r.statusCode]

\* two records come from runs of extractPageData on one document, one URL
\* and one response status
SameInput(a, b) ==
    a.url = b.url /\ a.html = b.html /\ a.statusCode = b.statusCode

C30_CancelKeepsRecords ==
    process = "exited" =>
        /\ \A f \in Frames : f.pc \notin FetchPcs \/ <<f.url, f.op, f.via>> \in fetched
        /\ crawledData # <<>> => persisted = Given(crawledData)

\* C31: failed requests are retried with exponential backoff: the wait
\* before each successive retry of the same URL is at least double the wait
\* before the previous retry.
C31_WaitsAtLeastDouble ==
    \A f \in Frames : \A k \in 2..Len(f.waits) :
        f.waits[k] >= 2 * f.waits[k - 1]

\* C32: cookie authentication yields one Cookie header whose value is the
\* name=value pairs joined with "; ", for an array of {name, value} pairs,
\* for the JSON text of such an array given with --auth-cookies, and for a
\* single delimited string.
C32_CookieHeaderJoinsPairs ==
    \A input \in CookieInputs :
        options.auth = "cookie" /\ options.cookies = authCookies(input) =>
            \A f \in Frames : f.pc \in {"getWait", "backoffWait"} =>
                f.headers = "Cookie" /\ f.cookie = Join(input.pairs)

\* C33: the number of link levels a crawlWithAxios crawl follows is governed
\* by the configured maxDepth: no page deeper than maxDepth is recorded, and
\* once the crawl is over the links of every recorded page above maxDepth
\* were crawled (visited, or failed), maxPages permitting, also when the
\* caller passes no depth.
C33_MaxDepthGoverns ==
    /\ \A r \in AxiosRecords : r.level <= options.maxDepth
    /\ stacks[1] = <<>> /\ Len(crawledData) < options.maxPages =>
          \A r \in AxiosRecords : r.level < options.maxDepth =>
              \A i \in DOMAIN r.links :
                  r.links[i] \in visitedUrls \cup failed

\* C34: a crawl operation reports failure as a null return value: in the
\* step in which a call that had reached its own requests returns null,
\* visitedUrls and crawledData are as they were when the url was first
\* called for, whatever the call did in between.
ReturnsNull ==
    /\ stacks[1] # <<>> /\ Len(stacks'[1]) < Len(stacks[1])
    /\ Head(stacks[1]).pc \notin {"childDelay", "retryDelay"}
    /\ lastReturn'.reason # "ok"

RECURSIVE Sum(_)
Sum(ns) == IF ns = <<>> THEN 0 ELSE Head(ns) + Sum(Tail(ns))

getStats ==
    [ totalPages  |-> Len(crawledData),
      totalLinks  |-> Sum([i \in DOMAIN crawledData |-> Len(crawledData[i].links)]),
      totalImages |-> Sum([i \in DOMAIN crawledData |-> Len(crawledData[i].images)]),
      visitedUrls |-> Cardinality(visitedUrls) ]

\* C35: after any sequence of crawl operations on one crawler the number of
\* page records in crawledData equals the number of URLs in the visited
\* set: getStats().totalPages equals getStats().visitedUrls.
C35_PagesEqualVisited == getStats.totalPages = getStats.visitedUrls

\* C36: the configuration is loaded before a scheduler command reads it:
\* when the start, list or add command accesses this.config.jobs, the
\* loadConfig started by the constructor has completed.
C36_LoadedBeforeRead == \A r \in reads : r.loaded

\* C37: after stopAllJobs() no cron task created by scheduleJob is still
\* running, and after removeJob(name) no running task executes the job of
\* that name, also when a job name was scheduled more than once.
C37_StoppedMeansStopped ==
    /\ lastOp.op = "stopAllJobs" => \A i \in DOMAIN tasks : ~tasks[i].running
    /\ lastOp.op = "removeJob" =>
          \A i \in DOMAIN tasks : tasks[i].name = lastOp.name => ~tasks[i].running

\* C38: for a job with a webhook every execution forwards its outcome:
\* exactly one notification per finished execution, reporting success when
\* the crawl returned data (and it was saved) and failure otherwise, also
\* when the crawl returned no data without throwing.
C38_OneNotificationPerRun ==
    \A k \in DOMAIN runs : runs[k].webhook /\ runs[k].pc = "done" =>
        /\ Cardinality({j \in DOMAIN posts : posts[j].run = k}) = 1
        /\ \A j \in DOMAIN posts : posts[j].run = k =>
              (posts[j].success <=> runs[k].result = "data" /\ runs[k].saved)

====
